---- MODULE Spec2Model ----
(***************************************************************************)
(* A model of planning_center_backend: the session transport with its CSRF *)
(* token cache (planning_center.py), the generic paginated query           *)
(* (api_provider.py) and the group settings accessor (groups.py).          *)
(*                                                                         *)
(* The specifications of the module:                                       *)
(*   Spec       the transport: get_csrf_token, post, delete, the clock     *)
(*   SpecQuery  ApiProvider.query_api against a server of linked pages     *)
(*   SpecGroup  GroupObject property setters, getters and refresh          *)
(*   SpecBlock  GroupObject setters and delete inside no_refresh blocks     *)
(*   SpecAuth   login, logout and GroupsApiProvider.create                  *)
(*   SpecTags   GroupObject.add_tag, delete_tag, has_tag                    *)
(*   SpecMembers GroupObject.add_member, get_member, update_member,         *)
(*              delete_member                                                *)
(*                                                                         *)
(* The environment: every HTTP request is answered (ok or not ok); an ok   *)
(* frontend page carries the csrf-token meta tag and an ok API response    *)
(* decodes under its schema.  One PlanningCenterBackend, hence one         *)
(* session, is modelled, so a cache key (session, url) is written url.     *)
(* The server applies a POST or DELETE only when it answers it ok.  One    *)
(* client changes the group: what the server holds changes by its requests *)
(* alone (SpecAuth lets others remove groups and the session expire).      *)
(***************************************************************************)
EXTENDS Integers, Sequences, FiniteSets

VARIABLES
    now,        \* the TTLCache timer (seconds)
    cache,      \* _get_cached_csrf_token.cache : url -> entry
    srvTok,     \* the token the server currently embeds in its pages
    pc,         \* position of the transport call in progress
    call,       \* the arguments of that call
    log,        \* what the call did so far: pops of the cache, HTTP requests
    outcome,    \* how the call ended
    stored,     \* history: when and what was last put in the cache, per url
    srvPages,   \* the API server's pages: url -> response
    q_pc,       \* position of query_api: "idle" | "fetch" | "done"
    q_url,      \* query_api's url
    q_limit,    \* query_api's limit
    q_results,  \* query_api's results
    q_fetched,  \* history: the requests query_api sent, in order
    q_ret,      \* what query_api returned or raised
    srv,        \* the server's group: whether it exists, its stored settings
    obj,        \* the GroupObject: _data, _settings_soup, _deleted, auto_refresh
    g_last,     \* history: the last operation on the GroupObject and its result
    g_n,        \* history: flips at every operation on the GroupObject
    blocks,     \* the no_refresh blocks being run, innermost last: their frames
    g_track,    \* history: what became of the lazy load, of auto_refresh in a block
    sess,       \* the server's side of the session: the user logged in, or None
    username,   \* PlanningCenterBackend._username
    logged_in,  \* PlanningCenterBackend._logged_in
    srvGroups,  \* the names of the groups the server holds
    a_last,     \* history: the last of login, logout, create and what it did
    srvTags,    \* how many times the server holds each tag attached to the group
    tobj,       \* the GroupObject, for its tags: _data, _settings_soup, auto_refresh
    k_last,     \* history: the last tag operation and what it did
    k_hist,     \* history: the latest tag operations, while k_clean
    k_clean,    \* history: auto_refresh was on and every request answered ok so far
    srvMembers, \* the role the server holds for each person in the group, or None
    m_data,     \* whether the GroupObject holds _data (for its memberships link)
    m_hist,     \* history: the latest membership operations, while m_clean
    m_clean     \* history: every request was answered ok so far

tvars == <<now, cache, srvTok, pc, call, log, outcome, stored>>
qvars == <<srvPages, q_pc, q_url, q_limit, q_results, q_fetched, q_ret>>
gvars == <<srv, obj, g_last, g_n, blocks, g_track>>
avars == <<sess, username, logged_in, srvGroups, a_last>>
kvars == <<srvTags, tobj, k_last, k_hist, k_clean>>
mvars == <<srvMembers, m_data, m_hist, m_clean>>
vars == <<tvars, qvars, gvars, avars, kvars, mvars>>
NotTransport == <<qvars, gvars, avars, kvars, mvars>>
NotQuery == <<tvars, gvars, avars, kvars, mvars>>
NotGroup == <<tvars, qvars, avars, kvars, mvars>>
NotAuth == <<tvars, qvars, gvars, kvars, mvars>>
NotTags == <<tvars, qvars, gvars, avars, mvars>>
NotMembers == <<tvars, qvars, gvars, avars, kvars>>

----------------------------------------------------------------------------
(* Bounds and constants *)

\* Frontend pages tokens are fetched from (settings_url, members_url)
Urls == {"settings", "members"}
\* csrf_frontend_url=None
NoUrl == "None"

\* The server rotates its token at most MaxToken times: tokens 0..MaxToken
MaxToken == 1
\* The clock stops at MaxTime
MaxTime == 90
\* The clock advances in these steps
TickSteps == {30, 60}

CSRF_CACHE_TIME == 60

\* no_refresh blocks are nested at most MaxDepth deep
MaxDepth == 2
\* The server holds a tag attached to a group at most MaxAttach times
MaxAttach == 2
\* The latest MaxHist tag operations are remembered
MaxHist == 2

NoTok == -1
Raised == -2

NoEntry == [tok |-> NoTok, expires |-> 0]
NoStored == [tok |-> NoTok, at |-> -1, forced |-> FALSE]

----------------------------------------------------------------------------
(* cachetools.TTLCache as used by @cached(cache=TTLCache(maxsize=1024,      *)
(* ttl=CSRF_CACHE_TIME)).  maxsize exceeds the number of keys of the model, *)
(* so no entry is evicted for lack of room.                                 *)

\* (variant: an item is still visible at the instant it expires)
TTLHasLate(c, k, t) == c[k] # NoEntry /\ t <= c[k].expires
\* key in cache / cache[key]: an item is visible while timer() < expires
TTLHas(c, k, t) == c[k] # NoEntry /\ t < c[k].expires

\* cache[key] = value: expired items are purged, the item expires at timer() + ttl
TTLSet(c, k, v, t) ==
    [u \in DOMAIN c |->
        IF u = k THEN [tok |-> v, expires |-> t + CSRF_CACHE_TIME]
        ELSE IF TTLHas(c, u, t) THEN c[u] ELSE NoEntry]

\* cache.pop(key, None): removes a visible item, leaves the rest alone
TTLPop(c, k, t) == IF TTLHas(c, k, t) THEN [c EXCEPT ![k] = NoEntry] ELSE c

----------------------------------------------------------------------------
(* get_csrf_token *)

\* _get_csrf_token: GET the page; not ok raises RequestError, else the token
FetchToken(pageOk, tok) == IF pageOk THEN tok ELSE Raised

\* (variant: force_refresh does not pop the url's entry)
GetCsrfTokenNoPop(c, u, no_cache, force_refresh, t, pageOk, tok) ==
    IF no_cache
    THEN [cache |-> c, popped |-> force_refresh, fetched |-> TRUE,
          res |-> FetchToken(pageOk, tok)]
    ELSE IF TTLHas(c, u, t)
    THEN [cache |-> c, popped |-> force_refresh, fetched |-> FALSE,
          res |-> c[u].tok]
    ELSE [cache |-> IF pageOk THEN TTLSet(c, u, tok, t) ELSE c,
          popped |-> force_refresh, fetched |-> TRUE,
          res |-> FetchToken(pageOk, tok)]

\* (variant: no_cache is ignored)
GetCsrfTokenCached(c, u, no_cache, force_refresh, t, pageOk, tok) ==
    LET c1 == IF force_refresh THEN TTLPop(c, u, t) ELSE c
    IN  IF TTLHas(c1, u, t)
        THEN [cache |-> c1, popped |-> force_refresh, fetched |-> FALSE,
              res |-> c1[u].tok]
        ELSE [cache |-> IF pageOk THEN TTLSet(c1, u, tok, t) ELSE c1,
              popped |-> force_refresh, fetched |-> TRUE,
              res |-> FetchToken(pageOk, tok)]

\* get_csrf_token(frontend_url, no_cache, force_refresh) at time t, when the
\* page request (if one is sent) is answered pageOk with token tok.
\* popped/fetched tell what the call did; res is the token or Raised.
GetCsrfToken(c, u, no_cache, force_refresh, t, pageOk, tok) ==
    LET c1 == IF force_refresh THEN TTLPop(c, u, t) ELSE c
    IN  IF no_cache
        THEN [cache |-> c1, popped |-> force_refresh, fetched |-> TRUE,
              res |-> FetchToken(pageOk, tok)]
        ELSE IF TTLHas(c1, u, t)
        THEN [cache |-> c1, popped |-> force_refresh, fetched |-> FALSE,
              res |-> c1[u].tok]
        ELSE [cache |-> IF pageOk THEN TTLSet(c1, u, tok, t) ELSE c1,
              popped |-> force_refresh, fetched |-> TRUE,
              res |-> FetchToken(pageOk, tok)]

\* The log entries of one get_csrf_token call
Ev(ev, tok, ok) == [ev |-> ev, tok |-> tok, ok |-> ok]
CsrfEvents(r) ==
    (IF r.popped THEN <<Ev("pop", NoTok, TRUE)>> ELSE <<>>)
    \o (IF r.fetched
        THEN <<Ev("page", IF r.res = Raised THEN NoTok ELSE r.res, r.res # Raised)>>
        ELSE <<>>)

\* History, kept apart from the cache: a forced refresh forgets the url's
\* token; a token fetched by a caching call is remembered with its time.
StoredAfter(s, u, no_cache, force_refresh, t, r) ==
    LET s1 == IF force_refresh THEN [s EXCEPT ![u] = NoStored] ELSE s
    IN  IF ~no_cache /\ r.fetched /\ r.res # Raised
        THEN [s1 EXCEPT ![u] = [tok |-> r.res, at |-> t, forced |-> force_refresh]]
        ELSE s1

----------------------------------------------------------------------------
(* Transport calls.  pc: "idle" | "tok" | "token1" | "send1" | "token2" |    *)
(* "send2" | "send" | "done"                                                 *)

NoCall == [method |-> "none", url |-> NoUrl, no_cache |-> FALSE,
           auto_retry |-> FALSE, force |-> FALSE]
NoOutcome == [kind |-> "none", resp |-> 0, tok |-> NoTok]

CanStart == pc \in {"idle", "done"}

\* A direct call get_csrf_token(u, no_cache=nc, force_refresh=fr)
StartGetCsrfToken(u, nc, fr) ==
    /\ CanStart
    /\ call' = [method |-> "csrf", url |-> u, no_cache |-> nc,
                auto_retry |-> FALSE, force |-> fr]
    /\ pc' = "tok"
    /\ log' = <<>>
    /\ outcome' = NoOutcome
    /\ UNCHANGED <<now, cache, srvTok, stored>>
    /\ UNCHANGED NotTransport

\* post / delete entered: with a csrf_frontend_url the token comes first
StartRequest(m, u, nc, ar) ==
    /\ CanStart
    /\ call' = [method |-> m, url |-> u, no_cache |-> nc,
                auto_retry |-> ar, force |-> FALSE]
    /\ pc' = IF u # NoUrl THEN "token1" ELSE "send"
    /\ log' = <<>>
    /\ outcome' = NoOutcome
    /\ UNCHANGED <<now, cache, srvTok, stored>>
    /\ UNCHANGED NotTransport

StartPost(u, nc, ar) == StartRequest("post", u, nc, ar)
StartDelete(u, nc, ar) == StartRequest("delete", u, nc, ar)

\* The arguments of the get_csrf_token call made at pc: the caller's for a
\* direct call, no_cache=csrf_no_cache before the first send,
\* force_refresh=True before the retry
CsrfNoCache == IF pc = "token2" THEN FALSE ELSE call.no_cache
\* (variant: the retry does not force a refresh)
CsrfForceNever == IF pc = "tok" THEN call.force ELSE FALSE
CsrfForce == IF pc = "tok" THEN call.force ELSE pc = "token2"

\* The get_csrf_token call of "tok", "token1" and "token2"
CsrfStep(pageOk) ==
    /\ pc \in {"tok", "token1", "token2"}
    /\ LET r == GetCsrfToken(cache, call.url, CsrfNoCache, CsrfForce,
                             now, pageOk, srvTok)
       IN  /\ cache' = r.cache
           /\ stored' = StoredAfter(stored, call.url, CsrfNoCache, CsrfForce, now, r)
           /\ log' = log \o CsrfEvents(r)
           /\ IF r.res = Raised
              THEN \* RequestError(response = the page's response) propagates
                   /\ pc' = "done"
                   /\ outcome' = [kind |-> "RequestError", resp |-> Len(log'),
                                  tok |-> NoTok]
              ELSE IF pc = "tok"
              THEN /\ pc' = "done"
                   /\ outcome' = [kind |-> "ret", resp |-> 0, tok |-> r.res]
              ELSE /\ pc' = IF pc = "token1" THEN "send1" ELSE "send2"
                   /\ outcome' = [outcome EXCEPT !.tok = r.res]
    /\ UNCHANGED <<now, srvTok, call>>
    /\ UNCHANGED NotTransport

\* (variant: every response that is not ok is retried)
ShouldRetryAlways(ok, no_cache, auto_retry) == ~ok
\* if not r.ok and not csrf_no_cache and csrf_auto_retry
ShouldRetry(ok, no_cache, auto_retry) == ~ok /\ ~no_cache /\ auto_retry

\* (variant: the first send's response is checked, not the last)
CheckResultFirst(l) ==
    LET first == CHOOSE i \in 1..Len(l) :
                    /\ l[i].ev = "send"
                    /\ \A j \in 1..(i - 1) : l[j].ev # "send"
    IN  [kind |-> IF l[first].ok THEN "ret" ELSE "RequestError",
         resp |-> first, tok |-> NoTok]
\* if not r.ok: raise RequestError(response=r); return r
CheckResult(l) ==
    [kind |-> IF l[Len(l)].ok THEN "ret" ELSE "RequestError",
     resp |-> Len(l), tok |-> NoTok]

\* session.post / session.delete of the target url, answered ok or not
SendStep(ok) ==
    /\ pc \in {"send1", "send2", "send"}
    /\ log' = Append(log, Ev("send", outcome.tok, ok))
    /\ IF pc = "send1" /\ ShouldRetry(ok, call.no_cache, call.auto_retry)
       THEN /\ pc' = "token2"
            /\ outcome' = NoOutcome
       ELSE /\ pc' = "done"
            /\ outcome' = CheckResult(log')
    /\ UNCHANGED <<now, cache, srvTok, call, stored>>
    /\ UNCHANGED NotTransport

\* Time passes
Tick(d) ==
    /\ now + d <= MaxTime
    /\ now' = now + d
    /\ UNCHANGED <<cache, srvTok, pc, call, log, outcome, stored>>
    /\ UNCHANGED NotTransport

\* The server issues a new token
Rotate ==
    /\ srvTok < MaxToken
    /\ srvTok' = srvTok + 1
    /\ UNCHANGED <<now, cache, pc, call, log, outcome, stored>>
    /\ UNCHANGED NotTransport

TInit ==
    /\ now = 0
    /\ cache = [u \in Urls |-> NoEntry]
    /\ srvTok = 0
    /\ pc = "idle"
    /\ call = NoCall
    /\ log = <<>>
    /\ outcome = NoOutcome
    /\ stored = [u \in Urls |-> NoStored]

Next ==
    \/ \E u \in Urls, nc \in BOOLEAN, fr \in BOOLEAN : StartGetCsrfToken(u, nc, fr)
    \/ \E u \in Urls \cup {NoUrl}, nc \in BOOLEAN, ar \in BOOLEAN : StartPost(u, nc, ar)
    \/ \E u \in Urls \cup {NoUrl}, nc \in BOOLEAN, ar \in BOOLEAN : StartDelete(u, nc, ar)
    \/ \E pageOk \in BOOLEAN : CsrfStep(pageOk)
    \/ \E ok \in BOOLEAN : SendStep(ok)
    \/ \E d \in TickSteps : Tick(d)
    \/ Rotate

----------------------------------------------------------------------------
(* ApiProvider.query_api against a server of linked pages *)

\* The urls the API server answers
Pages == {"p1", "p2", "p3"}
\* The url query_api is called with
FirstUrl == "p1"
\* url = None
NoPage == "None"
\* section.links: None, a dict without 'next', or a dict whose 'next' is a url
NoLinks == "NoLinks"
NoNext == "NoNext"
\* limit=None
NoLimit == -1

\* A page's data list holds at most MaxPageSize records
MaxPageSize == 2
\* limit is drawn from 0..MaxLimit
MaxLimit == 3
\* query_api is followed for at most MaxFetch requests
MaxFetch == 4

\* A response: whether meta holds 'total_count', the length of its data list
\* (a scalar object's data is the object), and its links
PageBodies ==
    [total_count : {TRUE}, size : 0..MaxPageSize,
     links : {NoLinks, NoNext} \cup Pages]
    \cup [total_count : {FALSE}, size : {0}, links : {NoLinks, NoNext} \cup Pages]

\* section.data of page p: its records in order, or its one object
ListData(p, page) == [i \in 1..page.size |-> <<p, i>>]
ScalarData(p) == [obj |-> p]

\* (variant: no response is taken for a singleton)
IsSingletonNever(page) == FALSE
\* 'total_count' not in section.meta
IsSingleton(page) == ~page.total_count

\* (variant: results = section.data)
ExtendReplace(results, data) == data
\* results.extend(section.data)
Extend(results, data) == results \o data

\* url = section.links['next'] if section.links is not None and 'next' in
\* section.links, else None
NextUrl(p, page) == IF page.links \in Pages THEN page.links ELSE NoPage

\* (variant: len(results) > limit)
LimitReachedStrict(limit, results) == limit # NoLimit /\ Len(results) > limit
\* limit is not None and len(results) >= limit
LimitReached(limit, results) == limit # NoLimit /\ Len(results) >= limit

NoRet == [kind |-> "none", data |-> <<>>]

\* query_api(url, limit=lim) is called: results = []
StartQuery(lim) ==
    /\ q_pc \in {"idle", "done"}
    /\ q_url' = FirstUrl
    /\ q_limit' = lim
    /\ q_results' = <<>>
    /\ q_fetched' = <<>>
    /\ q_ret' = NoRet
    /\ q_pc' = "fetch"
    /\ UNCHANGED srvPages
    /\ UNCHANGED NotQuery

\* One pass of the while loop: get_json(url), answered ok or not
QueryFetch(ok) ==
    /\ q_pc = "fetch"
    /\ Len(q_fetched) < MaxFetch
    /\ q_fetched' = Append(q_fetched, [url |-> q_url, ok |-> ok])
    /\ LET page == srvPages[q_url]
           results == Extend(q_results, ListData(q_url, page))
           url == NextUrl(q_url, page)
       IN  IF ~ok
           THEN \* get_json raises RequestError
                /\ q_ret' = [kind |-> "RequestError", data |-> <<>>]
                /\ q_pc' = "done"
                /\ UNCHANGED <<q_url, q_results>>
           ELSE IF IsSingleton(page)
           THEN \* result is a singleton, return now
                /\ q_ret' = [kind |-> "scalar", data |-> ScalarData(q_url)]
                /\ q_pc' = "done"
                /\ UNCHANGED <<q_url, q_results>>
           ELSE /\ q_results' = results
                /\ q_url' = url
                /\ IF LimitReached(q_limit, results) \/ url = NoPage
                   THEN /\ q_ret' = [kind |-> "list", data |-> results]
                        /\ q_pc' = "done"
                   ELSE /\ q_ret' = q_ret
                        /\ q_pc' = "fetch"
    /\ UNCHANGED <<srvPages, q_limit>>
    /\ UNCHANGED NotQuery

QIdle ==
    /\ q_pc = "idle"
    /\ q_url = NoPage
    /\ q_limit = NoLimit
    /\ q_results = <<>>
    /\ q_fetched = <<>>
    /\ q_ret = NoRet

QInit ==
    /\ srvPages \in [Pages -> PageBodies]
    /\ QIdle

QNext ==
    \/ \E lim \in {NoLimit} \cup 0..MaxLimit : StartQuery(lim)
    \/ \E ok \in BOOLEAN : QueryFetch(ok)

----------------------------------------------------------------------------
(* GroupObject: settings kept on the server, read through the API (_data)   *)
(* or scraped from the settings page (_settings_soup).  The server stores   *)
(* the form fields it is posted and renders them back: a checkbox is        *)
(* checked when its field is 1.  A                                          *)
(* request to a group that does not exist is answered 404; to one that      *)
(* exists, 200 or, when the server fails, 500 (and nothing is stored).      *)

\* Settings read from the API attributes / from the settings page
ApiProps == {"name"}
UiProps == {"communication_enabled", "schedule_offset"}
Props == ApiProps \cup UiProps

\* None, as the result of a call
None == "None"
SECONDS_PER_DAY == 86400

\* The values a caller assigns
Assignable(p) ==
    CASE p = "name" -> {"A", "B"}
      [] p = "communication_enabled" -> BOOLEAN
      [] p = "schedule_offset" -> {0, 1, 10, 11}

\* (variant: 0 days are accepted)
SetterRejectsBelowZero(p, v) == p = "schedule_offset" /\ (v < 0 \/ v > 10)
\* default_event_automated_reminders_schedule_offset.setter:
\* if days < 1 or days > 10: raise ValueError
SetterRejects(p, v) == p = "schedule_offset" /\ (v < 1 \/ v > 10)

\* The form field a setter posts for value v
FormField(p, v) ==
    CASE p = "name" -> v
      [] p = "communication_enabled" -> IF v THEN 1 ELSE 0
      [] p = "schedule_offset" -> v * SECONDS_PER_DAY

\* What the server shows for a stored field: in the API attributes, the
\* checkbox's checked attribute, the embedded JSON
Rendered(p, field) ==
    CASE p = "name" -> field
      [] p = "communication_enabled" -> field = 1
      [] p = "schedule_offset" -> field

\* What a getter makes of what the server shows
Decoded(p, shown) ==
    CASE p = "name" -> shown
      [] p = "communication_enabled" -> shown
      [] p = "schedule_offset" -> shown \div SECONDS_PER_DAY

NoData == [loaded |-> FALSE]
NoSoup == [loaded |-> FALSE]
\* GroupsApiProvider.get: the API's group data / get_frontend_soup: the page
ApiData(fields) ==
    [loaded |-> TRUE, shown |-> [p \in ApiProps |-> Rendered(p, fields[p])]]
SettingsSoup(fields) ==
    [loaded |-> TRUE, shown |-> [p \in UiProps |-> Rendered(p, fields[p])]]

\* The status of a request to the group's urls
Status(exists, up) == IF ~exists THEN 404 ELSE IF up THEN 200 ELSE 500
IsOk(status) == status = 200

\* The result of a method on the object: the object after it, whether it
\* raised, the number of requests it sent
Res(o, raised, reqs) == [obj |-> o, raised |-> raised, reqs |-> reqs]

\* _refresh_settings: self._settings_soup = get_frontend_soup(settings_url)
RefreshSettings(o, s, pageUp) ==
    IF IsOk(Status(s.exists, pageUp))
    THEN Res([o EXCEPT !.soup = SettingsSoup(s.fields)], "no", 1)
    ELSE Res(o, "RequestError", 1)

\* (variant: any failure of the API request marks the object deleted)
RefreshMarksAny(o, s, apiUp, pageUp) ==
    IF o.deleted THEN Res(o, "no", 0)
    ELSE IF IsOk(Status(s.exists, apiUp))
    THEN LET r == RefreshSettings([o EXCEPT !.data = ApiData(s.fields)], s, pageUp)
         IN  Res(r.obj, r.raised, r.reqs + 1)
    ELSE Res([o EXCEPT !.deleted = TRUE], "no", 1)

\* refresh: nothing when deleted; the API data, then the settings page; a 404
\* marks the object deleted, any other failure is raised
Refresh(o, s, apiUp, pageUp) ==
    IF o.deleted THEN Res(o, "no", 0)
    ELSE LET status == Status(s.exists, apiUp)
         IN  IF IsOk(status)
             THEN LET r == RefreshSettings([o EXCEPT !.data = ApiData(s.fields)],
                                           s, pageUp)
                  IN  Res(r.obj, r.raised, r.reqs + 1)
             ELSE IF status = 404
             THEN Res([o EXCEPT !.deleted = TRUE], "no", 1)
             ELSE Res(o, "RequestError", 1)

\* (variant: no refresh at all)
AutoRefreshNever(o, s, apiUp, pageUp) == Res(o, "no", 0)
\* _auto_refresh: if self.auto_refresh: self.refresh()
AutoRefresh(o, s, apiUp, pageUp) ==
    IF o.auto_refresh THEN Refresh(o, s, apiUp, pageUp) ELSE Res(o, "no", 0)

\* attributes: None when deleted; loads the data when there is none.
\* some tells that the result is res.obj.data.shown and not None
Attributes(o, s, apiUp, pageUp) ==
    IF o.deleted THEN [res |-> Res(o, "no", 0), some |-> FALSE]
    ELSE LET r == IF ~o.data.loaded THEN Refresh(o, s, apiUp, pageUp)
                  ELSE Res(o, "no", 0)
         IN  IF r.raised # "no" THEN [res |-> r, some |-> FALSE]
             ELSE IF r.obj.deleted THEN [res |-> r, some |-> FALSE]
             ELSE [res |-> r, some |-> r.obj.data.loaded]

\* (variant: the page is fetched at every read)
GetSettingsSoupReload(o, s, pageUp) == RefreshSettings(o, s, pageUp)
\* _get_settings_soup: loads the page when there is none
GetSettingsSoup(o, s, pageUp) ==
    IF ~o.soup.loaded THEN RefreshSettings(o, s, pageUp) ELSE Res(o, "no", 0)

Last(op, p, v, raised, reqs, auto) ==
    [op |-> op, prop |-> p, val |-> v, raised |-> raised, reqs |-> reqs,
     auto |-> auto]

\* Whether the operation recorded in l ran a refresh that sent a request
Refreshed(l) ==
    \/ l.op = "refresh"
    \/ l.op \in {"set", "delete"} /\ l.reqs > 1
    \/ l.op = "exit" /\ l.reqs > 0

\* History of the lazy load.  "built": made without data, attributes not read
\* yet, no refresh run; "loaded": the first read of attributes ran a refresh
\* that loaded the data and the page, and no refresh has run since; "void":
\* anything else
LazyAfter(lz, l) ==
    IF Refreshed(l) THEN "void"
    ELSE IF lz = "built" /\ l.op = "get" /\ l.prop \in ApiProps
    THEN IF l.raised = "no" /\ l.val # None THEN "loaded" ELSE "void"
    ELSE lz

\* History of a no_refresh block: whether the caller itself assigned
\* auto_refresh = True since the outermost block was entered
AssignedAfter(was, l, depth, depth2) ==
    IF depth2 = 0 THEN FALSE
    ELSE was \/ (depth > 0 /\ l.op = "auto_refresh" /\ l.val)

\* History of the lazy load: what the first read of attributes returned
FirstAfter(first, lz, l) ==
    IF lz = "built" /\ l.op = "get" /\ l.prop \in ApiProps THEN l.val ELSE first

Track(o) ==
    [lazy |-> IF o.data.loaded THEN "void" ELSE "built", first |-> None,
     assigned |-> FALSE]

TrackNext ==
    g_track' = [lazy |-> LazyAfter(g_track.lazy, g_last'),
                first |-> FirstAfter(g_track.first, g_track.lazy, g_last'),
                assigned |-> AssignedAfter(g_track.assigned, g_last',
                                           Len(blocks), Len(blocks'))]

\* obj.<p> = v: the setter, _update_setting (the POST, then _auto_refresh)
GroupSet(p, v, postUp, apiUp, pageUp) ==
    /\ IF SetterRejects(p, v)
       THEN /\ g_last' = Last("set", p, v, "ValueError", 0, obj.auto_refresh)
            /\ UNCHANGED <<srv, obj>>
       ELSE IF ~IsOk(Status(srv.exists, postUp))
       THEN \* backend.post raises RequestError
            /\ g_last' = Last("set", p, v, "RequestError", 1, obj.auto_refresh)
            /\ UNCHANGED <<srv, obj>>
       ELSE /\ srv' = [srv EXCEPT !.fields[p] = FormField(p, v)]
            /\ LET r == AutoRefresh(obj, srv', apiUp, pageUp)
               IN  /\ obj' = r.obj
                   /\ g_last' = Last("set", p, v, r.raised, r.reqs + 1,
                                     obj.auto_refresh)
    /\ g_n' = 1 - g_n
    /\ UNCHANGED blocks
    /\ TrackNext
    /\ UNCHANGED NotGroup

\* obj.<p>: the getter of a setting read from the API attributes
GroupGetApi(p, apiUp, pageUp) ==
    /\ p \in ApiProps
    /\ LET a == Attributes(obj, srv, apiUp, pageUp)
       IN  /\ obj' = a.res.obj
           /\ g_last' = Last("get", p,
                             IF a.some THEN Decoded(p, a.res.obj.data.shown[p])
                             ELSE None,
                             a.res.raised, a.res.reqs, obj.auto_refresh)
    /\ g_n' = 1 - g_n
    /\ UNCHANGED blocks
    /\ TrackNext
    /\ UNCHANGED srv
    /\ UNCHANGED NotGroup

\* obj.<p>: the getter of a setting scraped from the settings page
GroupGetUi(p, pageUp) ==
    /\ p \in UiProps
    /\ LET r == GetSettingsSoup(obj, srv, pageUp)
       IN  /\ obj' = r.obj
           /\ g_last' = Last("get", p,
                             IF r.raised # "no" THEN None
                             ELSE Decoded(p, r.obj.soup.shown[p]),
                             r.raised, r.reqs, obj.auto_refresh)
    /\ g_n' = 1 - g_n
    /\ UNCHANGED blocks
    /\ TrackNext
    /\ UNCHANGED srv
    /\ UNCHANGED NotGroup

\* obj.refresh()
GroupRefresh(apiUp, pageUp) ==
    /\ LET r == Refresh(obj, srv, apiUp, pageUp)
       IN  /\ obj' = r.obj
           /\ g_last' = Last("refresh", None, None, r.raised, r.reqs,
                             obj.auto_refresh)
    /\ g_n' = 1 - g_n
    /\ UNCHANGED blocks
    /\ TrackNext
    /\ UNCHANGED srv
    /\ UNCHANGED NotGroup

\* obj.delete(): backend.delete, _auto_refresh, return self.deleted
GroupDelete(delUp, apiUp, pageUp) ==
    /\ IF ~IsOk(Status(srv.exists, delUp))
       THEN /\ g_last' = Last("delete", None, None, "RequestError", 1,
                              obj.auto_refresh)
            /\ UNCHANGED <<srv, obj>>
       ELSE /\ srv' = [srv EXCEPT !.exists = FALSE]
            /\ LET r == AutoRefresh(obj, srv', apiUp, pageUp)
               IN  /\ obj' = r.obj
                   /\ g_last' = Last("delete", None,
                                     IF r.raised = "no" THEN r.obj.deleted ELSE None,
                                     r.raised, r.reqs + 1, obj.auto_refresh)
    /\ g_n' = 1 - g_n
    /\ UNCHANGED blocks
    /\ TrackNext
    /\ UNCHANGED NotGroup

\* obj.auto_refresh = b
SetAutoRefresh(b) ==
    /\ obj' = [obj EXCEPT !.auto_refresh = b]
    /\ g_last' = Last("auto_refresh", None, b, "no", 0, obj.auto_refresh)
    /\ g_n' = 1 - g_n
    /\ UNCHANGED blocks
    /\ TrackNext
    /\ UNCHANGED srv
    /\ UNCHANGED NotGroup

\* (variant: auto_refresh is restored on a normal exit only)
ExitStatusNormalOnly(old_status, current, normal) ==
    IF normal THEN old_status ELSE current
\* no_refresh, finally: self.auto_refresh = old_status
ExitStatus(old_status, current, normal) == old_status

\* no_refresh, after the try: if refresh_at_exit: self.refresh(); an exception
\* of the block leaves through finally and never gets there
ExitRefreshes(normal, refresh_at_exit) == normal /\ refresh_at_exit

\* with obj.no_refresh(refresh_at_exit): the block is entered
EnterNoRefresh(refresh_at_exit) ==
    /\ Len(blocks) < MaxDepth
    /\ blocks' = Append(blocks, [old_status |-> obj.auto_refresh,
                                 refresh_at_exit |-> refresh_at_exit])
    /\ obj' = [obj EXCEPT !.auto_refresh = FALSE]
    /\ g_last' = Last("enter", None, refresh_at_exit, "no", 0, obj.auto_refresh)
    /\ g_n' = 1 - g_n
    /\ TrackNext
    /\ UNCHANGED srv
    /\ UNCHANGED NotGroup

\* The innermost block is left, normally or by an exception of its body
ExitNoRefresh(normal, apiUp, pageUp) ==
    /\ Len(blocks) > 0
    /\ LET frame == blocks[Len(blocks)]
           o == [obj EXCEPT !.auto_refresh =
                     ExitStatus(frame.old_status, obj.auto_refresh, normal)]
           r == IF ExitRefreshes(normal, frame.refresh_at_exit)
                THEN Refresh(o, srv, apiUp, pageUp)
                ELSE Res(o, "no", 0)
       IN  /\ obj' = r.obj
           /\ g_last' = Last("exit", IF normal THEN "normal" ELSE "exception",
                             frame.refresh_at_exit, r.raised, r.reqs,
                             obj.auto_refresh)
    /\ blocks' = SubSeq(blocks, 1, Len(blocks) - 1)
    /\ g_n' = 1 - g_n
    /\ TrackNext
    /\ UNCHANGED srv
    /\ UNCHANGED NotGroup

\* The fields the server may hold to begin with
Storable(p) == {FormField(p, v) : v \in {x \in Assignable(p) : ~SetterRejects(p, x)}}
StoredFields ==
    [name : Storable("name"),
     communication_enabled : Storable("communication_enabled"),
     schedule_offset : Storable("schedule_offset")]

GIdle ==
    /\ srv = [exists |-> TRUE,
              fields |-> CHOOSE f \in StoredFields : TRUE]
    /\ obj = [data |-> NoData, soup |-> NoSoup, deleted |-> FALSE, auto_refresh |-> TRUE]
    /\ g_last = Last("none", None, None, "no", 0, TRUE)
    /\ g_n = 0
    /\ blocks = <<>>
    /\ g_track = Track(obj)

\* GroupObject.__init__: built with the group's data (GroupsApiProvider.get)
\* or without (GroupsApiProvider.query, create); nothing else is loaded
GInit ==
    /\ srv \in [exists : {TRUE}, fields : StoredFields]
    /\ obj \in [data : {NoData, ApiData(srv.fields)}, soup : {NoSoup},
                deleted : {FALSE}, auto_refresh : {TRUE}]
    /\ g_last = Last("none", None, None, "no", 0, TRUE)
    /\ g_n = 0
    /\ blocks = <<>>
    /\ g_track = Track(obj)

\* How the server answers the n requests an operation may send, one after
\* the other: the operation ends at the first request the server fails
Ups(n) == {ups \in [1..n -> BOOLEAN] : \A i, j \in 1..n : (i < j /\ ~ups[i]) => ups[j]}

GNext ==
    \/ \E p \in Props : \E v \in Assignable(p) : \E ups \in Ups(3) :
          GroupSet(p, v, ups[1], ups[2], ups[3])
    \/ \E p \in ApiProps : \E ups \in Ups(2) : GroupGetApi(p, ups[1], ups[2])
    \/ \E p \in UiProps, pageUp \in BOOLEAN : GroupGetUi(p, pageUp)
    \/ \E ups \in Ups(2) : GroupRefresh(ups[1], ups[2])
    \/ \E ups \in Ups(3) : GroupDelete(ups[1], ups[2], ups[3])
    \/ \E b \in BOOLEAN : SetAutoRefresh(b)

\* The settings modified inside the blocks
BlockProps == {"communication_enabled"}

\* The operations on a GroupObject that uses no_refresh blocks
BNext ==
    \/ \E p \in BlockProps : \E v \in Assignable(p) : \E ups \in Ups(3) :
          GroupSet(p, v, ups[1], ups[2], ups[3])
    \/ \E ups \in Ups(3) : GroupDelete(ups[1], ups[2], ups[3])
    \/ \E b \in BOOLEAN : SetAutoRefresh(b)
    \/ \E refresh_at_exit \in BOOLEAN : EnterNoRefresh(refresh_at_exit)
    \/ \E normal \in BOOLEAN : \E ups \in Ups(2) : ExitNoRefresh(normal, ups[1], ups[2])

----------------------------------------------------------------------------
(* login, logout and GroupsApiProvider.create.  The server keeps the       *)
(* session's login and the groups' names.  A login POST with credentials   *)
(* the server rejects is answered ok all the same and leaves the session   *)
(* as it was; the topbar resource is answered ok only to a session that is *)
(* logged in.                                                              *)

Users == {"u1", "u2"}
GroupNames == {"A", "AB"}

\* _check_login: r = session.get(TOPBAR_URL); self._logged_in = r.ok
CheckLogin(s, up) == s # None /\ up

\* How an operation ended: what it raised, what it returned, _username after
Ended(raised, ret, user) == [raised |-> raised, ret |-> ret, username |-> user]

\* (variant: _username is set as soon as the login POST is ok)
LoginEndEager(user, before, post_ok, check_ok) ==
    IF ~post_ok THEN Ended("RuntimeError", None, before)
    ELSE Ended("no", IF check_ok THEN "True" ELSE "False", user)
\* login, after the POST: if not r_login.ok: raise RuntimeError;
\* if self.logged_in: self._username = username; return True; else False
LoginEnd(user, before, post_ok, check_ok) ==
    IF ~post_ok THEN Ended("RuntimeError", None, before)
    ELSE IF check_ok THEN Ended("no", "True", user)
    ELSE Ended("no", "False", before)

\* (variant: _username is cleared whatever the second check says)
LogoutEndClears(before, still_in) ==
    Ended(IF still_in THEN "RuntimeError" ELSE "no", None, None)
\* logout, after the logout request: success = not self.logged_in
LogoutEnd(before, still_in) ==
    IF ~still_in THEN Ended("no", None, None)
    ELSE Ended("RuntimeError", None, before)

\* The record of an operation: its argument, _username before it, the
\* results of the login checks it made in order, whether it sent its own
\* request (login POST, logout GET, creation POST) and was answered ok,
\* what became of the name query of create ("no": not sent, "failed": not
\* answered ok, "names_failed": a read of a returned group's name failed,
\* "ok") and the names it returned, how it ended
ALast(op, arg, before, checks, sent, sent_ok, queried, returned, end) ==
    [op |-> op, arg |-> arg, before |-> before, checks |-> checks,
     sent |-> sent, sent_ok |-> sent_ok, queried |-> queried,
     returned |-> returned, raised |-> end.raised, ret |-> end.ret]

\* backend.login(user, password): the login page carries the form's
\* authenticity_token or not (then soup.find(...) is None: AttributeError);
\* valid tells whether the server accepts the credentials
Login(user, valid, formUp, postUp, checkUp) ==
    /\ IF ~formUp
       THEN /\ a_last' = ALast("login", user, username, <<>>, FALSE, FALSE,
                               "no", <<>>, Ended("AttributeError", None, username))
            /\ UNCHANGED <<sess, username, logged_in>>
       ELSE /\ sess' = IF postUp /\ valid THEN user ELSE sess
            /\ LET checks == IF postUp THEN <<CheckLogin(sess', checkUp)>> ELSE <<>>
                   end == LoginEnd(user, username, postUp,
                                   postUp /\ CheckLogin(sess', checkUp))
               IN  /\ logged_in' = IF postUp THEN checks[1] ELSE logged_in
                   /\ username' = end.username
                   /\ a_last' = ALast("login", user, username, checks, TRUE,
                                      postUp, "no", <<>>, end)
    /\ UNCHANGED srvGroups
    /\ UNCHANGED NotAuth

\* backend.logout(): the check, the logout request (which the server
\* honours when it answers ok), the second check
Logout(check1Up, getUp, check2Up) ==
    /\ IF ~CheckLogin(sess, check1Up)
       THEN /\ logged_in' = FALSE
            /\ a_last' = ALast("logout", None, username, <<FALSE>>, FALSE, FALSE,
                               "no", <<>>, Ended("no", None, username))
            /\ UNCHANGED <<sess, username>>
       ELSE /\ sess' = IF getUp THEN None ELSE sess
            /\ LET still_in == CheckLogin(sess', check2Up)
                   end == LogoutEnd(username, still_in)
               IN  /\ logged_in' = still_in
                   /\ username' = end.username
                   /\ a_last' = ALast("logout", None, username, <<TRUE, still_in>>,
                                      TRUE, getUp, "no", <<>>, end)
    /\ UNCHANGED srvGroups
    /\ UNCHANGED NotAuth

\* The server's where[name] filter: the groups whose name starts with q
QueryMatches(q, n) == q = n \/ (q = "A" /\ n = "AB")

\* The orders in which the server may list the groups of S
Orders(S) ==
    {sq \in [1..Cardinality(S) -> S] : \A i, j \in DOMAIN sq : sq[i] = sq[j] => i = j}

\* (variant: no group is ever found)
CheckExistsNever(name, names, failAt) == "False"
\* _check_exists: for g in groups: if g.name == name: return True.  g.name
\* loads the group (the objects of query hold no data); failAt is the place
\* of the group whose load fails, 0 when none does
CheckExists(name, names, failAt) ==
    LET hits == {i \in DOMAIN names : names[i] = name}
        before == {i \in DOMAIN names : \A h \in hits : i <= h}
    IN  IF failAt \in before THEN "RequestError"
        ELSE IF hits # {} THEN "True" ELSE "False"

\* backend.groups.create(name), the query being answered with names
CreateWith(name, checkUp, queryUp, names, failAt, postUp, location) ==
    /\ logged_in' = CheckLogin(sess, checkUp)
    /\ LET rec(sent, sent_ok, queried, returned, raised, ret) ==
               ALast("create", name, username, <<logged_in'>>, sent, sent_ok,
                     queried, returned, Ended(raised, ret, username))
       IN  IF ~logged_in'
           THEN /\ a_last' = rec(FALSE, FALSE, "no", <<>>, "ValueError", None)
                /\ UNCHANGED srvGroups
           ELSE IF ~queryUp
           THEN /\ a_last' = rec(FALSE, FALSE, "failed", <<>>, "RequestError", None)
                /\ UNCHANGED srvGroups
           ELSE IF CheckExists(name, names, failAt) = "RequestError"
           THEN /\ a_last' = rec(FALSE, FALSE, "names_failed", names,
                                 "RequestError", None)
                /\ UNCHANGED srvGroups
           ELSE IF CheckExists(name, names, failAt) = "True"
           THEN /\ a_last' = rec(FALSE, FALSE, "ok", names, "ValueError", None)
                /\ UNCHANGED srvGroups
           ELSE IF ~postUp
           THEN /\ a_last' = rec(TRUE, FALSE, "ok", names, "RequestError", None)
                /\ UNCHANGED srvGroups
           ELSE IF ~location \/ name \in srvGroups
           THEN \* 'Location' not in r.headers
                /\ a_last' = rec(TRUE, TRUE, "ok", names, "ValueError", None)
                /\ UNCHANGED srvGroups
           ELSE /\ a_last' = rec(TRUE, TRUE, "ok", names, "no", "GroupObject")
                /\ srvGroups' = srvGroups \cup {name}
    /\ UNCHANGED <<sess, username>>
    /\ UNCHANGED NotAuth

\* backend.groups.create(name)
Create(name, checkUp, queryUp, postUp, location) ==
    \E names \in Orders({n \in srvGroups : QueryMatches(name, n)}) :
       \E failAt \in 0..Len(names) :
          CreateWith(name, checkUp, queryUp, names, failAt, postUp, location)

\* Someone removes a group from the server
GroupRemoved(n) ==
    /\ n \in srvGroups
    /\ srvGroups' = srvGroups \ {n}
    /\ UNCHANGED <<sess, username, logged_in, a_last>>
    /\ UNCHANGED NotAuth

\* The server ends the session (it expires)
SessionExpires ==
    /\ sess # None
    /\ sess' = None
    /\ UNCHANGED <<username, logged_in, srvGroups, a_last>>
    /\ UNCHANGED NotAuth

----------------------------------------------------------------------------
(* GroupObject tags.  The server lets a tag be attached more than once.    *)
(* The API lists the tags attached now; the settings page embeds, per      *)
(* attachment, the tag's id and the url that removes it.  An operation     *)
(* sends its requests one after the other and ends at the first that       *)
(* fails: failAt is the place of that request, 0 when none fails, n the    *)
(* number of requests sent so far.                                         *)

Tags == {"t1", "t2"}
\* _settings_soup = None; a loaded page shows the attachments of each tag
NoTags == [loaded |-> FALSE, shown |-> [t \in Tags |-> 0]]
TagsPage(st) == [loaded |-> TRUE, shown |-> st]
\* The most requests one tag operation sends: add_tag's two tag lookups, the
\* refresh of an object without data (2), the tag list, the POST, the
\* refresh after it (2)
MaxRequests == 8

\* The result of a step: the object, what was raised, the value, the
\* number of requests sent so far
TRes(o, raised, val, n) == [obj |-> o, raised |-> raised, val |-> val, n |-> n]

\* refresh: the API's group data, then the settings page
TagsRefresh(o, st, n, failAt) ==
    IF n + 1 = failAt THEN TRes(o, "RequestError", None, n + 1)
    ELSE IF n + 2 = failAt
    THEN TRes([o EXCEPT !.data = TRUE], "RequestError", None, n + 2)
    ELSE TRes([o EXCEPT !.data = TRUE, !.soup = TagsPage(st)], "no", None, n + 2)

\* (variant: no refresh at all)
TagsAutoRefreshNever(o, st, n, failAt) == TRes(o, "no", None, n)
\* _auto_refresh: if self.auto_refresh: self.refresh()
TagsAutoRefresh(o, st, n, failAt) ==
    IF o.auto_refresh THEN TagsRefresh(o, st, n, failAt) ELSE TRes(o, "no", None, n)

\* _tag_input_to_id of an id: self._api.tags.get(input_), a RequestError
\* becomes ValueError
TagInputToId(o, n, failAt) ==
    IF n + 1 = failAt THEN TRes(o, "ValueError", None, n + 1)
    ELSE TRes(o, "no", None, n + 1)

\* self.tags: _get_link_with_schema('tags', ...): a refresh when there is no
\* _data, then the API's list of the group's tags as it is now
GroupTags(o, st, n, failAt) ==
    LET r == IF ~o.data THEN TagsRefresh(o, st, n, failAt) ELSE TRes(o, "no", None, n)
    IN  IF r.raised # "no" THEN r
        ELSE IF r.n + 1 = failAt THEN TRes(r.obj, "RequestError", None, r.n + 1)
        ELSE TRes(r.obj, "no", st, r.n + 1)

\* (variants: the tag is never, is always found among the current tags)
InTagsNever(current_tags, t) == FALSE
InTagsAlways(current_tags, t) == TRUE
\* len([t for t in current_tags if int(t.id) == id_]) > 0
InTags(current_tags, t) == current_tags[t] > 0

\* has_tag: the id, the current tags, the test
HasTag(o, st, t, n, failAt) ==
    LET i == TagInputToId(o, n, failAt)
        c == GroupTags(o, st, i.n, failAt)
    IN  IF i.raised # "no" THEN i
        ELSE IF c.raised # "no" THEN c
        ELSE TRes(c.obj, "no", InTags(c.val, t), c.n)

\* _get_settings_soup: loads the page when there is none
TagsSoup(o, st, n, failAt) ==
    IF o.soup.loaded THEN TRes(o, "no", o.soup, n)
    ELSE IF n + 1 = failAt THEN TRes(o, "RequestError", None, n + 1)
    ELSE TRes([o EXCEPT !.soup = TagsPage(st)], "no", TagsPage(st), n + 1)

\* The record of a tag operation: the tag, whether exists_ok / missing_ok
\* was False (strict), the tag's attachments before it, what its has_tag
\* said, whether it sent its POST / DELETE, how it ended
KLast(op, t, strict, pre, had, sent, raised, val) ==
    [op |-> op, tag |-> t, strict |-> strict, pre |-> pre, had |-> had,
     sent |-> sent, raised |-> raised, val |-> val]

Bool(b) == IF b THEN "True" ELSE "False"

\* The end of a tag operation that left the object o and sent n requests
TagsEnd(o, n, failAt, l) ==
    /\ tobj' = o
    /\ k_last' = l
    /\ k_clean' = (k_clean /\ failAt \notin 1..n)
    /\ k_hist' = IF ~k_clean' THEN <<>>
                 ELSE LET h == Append(k_hist, [op |-> l.op, tag |-> l.tag,
                                               strict |-> l.strict,
                                               raised |-> l.raised, val |-> l.val])
                      IN  IF Len(h) > MaxHist THEN Tail(h) ELSE h
    /\ UNCHANGED NotTags

\* obj.add_tag(t, exists_ok)
AddTag(t, exists_ok, failAt) ==
    /\ srvTags[t] < MaxAttach
    /\ LET i == TagInputToId(tobj, 0, failAt)
           h == HasTag(i.obj, srvTags, t, i.n, failAt)
           rec(had, sent, raised) ==
               KLast("add", t, ~exists_ok, srvTags[t], had, sent, raised, None)
       IN  IF i.raised # "no"
           THEN /\ TagsEnd(i.obj, i.n, failAt, rec(None, FALSE, i.raised))
                /\ UNCHANGED srvTags
           ELSE IF h.raised # "no"
           THEN /\ TagsEnd(h.obj, h.n, failAt, rec(None, FALSE, h.raised))
                /\ UNCHANGED srvTags
           ELSE IF h.val
           THEN /\ TagsEnd(h.obj, h.n, failAt,
                           rec("True", FALSE, IF exists_ok THEN "no" ELSE "ValueError"))
                /\ UNCHANGED srvTags
           ELSE IF h.n + 1 = failAt
           THEN \* backend.post raises RequestError
                /\ TagsEnd(h.obj, h.n + 1, failAt, rec("False", TRUE, "RequestError"))
                /\ UNCHANGED srvTags
           ELSE /\ srvTags' = [srvTags EXCEPT ![t] = @ + 1]
                /\ LET r == TagsAutoRefresh(h.obj, srvTags', h.n + 1, failAt)
                   IN  TagsEnd(r.obj, r.n, failAt, rec("False", TRUE, r.raised))

\* obj.delete_tag(t, missing_ok): the deletion url is read from the page
\* the object holds; no refresh follows the DELETE
DeleteTag(t, missing_ok, failAt) ==
    /\ LET i == TagInputToId(tobj, 0, failAt)
           h == HasTag(i.obj, srvTags, t, i.n, failAt)
           p == TagsSoup(h.obj, srvTags, h.n, failAt)
           rec(had, sent, raised) ==
               KLast("delete", t, ~missing_ok, srvTags[t], had, sent, raised, None)
       IN  IF i.raised # "no"
           THEN /\ TagsEnd(i.obj, i.n, failAt, rec(None, FALSE, i.raised))
                /\ UNCHANGED srvTags
           ELSE IF h.raised # "no"
           THEN /\ TagsEnd(h.obj, h.n, failAt, rec(None, FALSE, h.raised))
                /\ UNCHANGED srvTags
           ELSE IF ~h.val
           THEN /\ TagsEnd(h.obj, h.n, failAt,
                           rec("False", FALSE, IF missing_ok THEN "no" ELSE "ValueError"))
                /\ UNCHANGED srvTags
           ELSE IF p.raised # "no"
           THEN /\ TagsEnd(p.obj, p.n, failAt, rec("True", FALSE, p.raised))
                /\ UNCHANGED srvTags
           ELSE IF p.val.shown[t] # 1
           THEN \* len(this_tag) == 0 or len(this_tag) > 1
                /\ TagsEnd(p.obj, p.n, failAt, rec("True", FALSE, "RuntimeError"))
                /\ UNCHANGED srvTags
           ELSE IF p.n + 1 = failAt \/ srvTags[t] = 0
           THEN \* backend.delete raises RequestError
                /\ TagsEnd(p.obj, p.n + 1, IF srvTags[t] = 0 THEN p.n + 1 ELSE failAt,
                           rec("True", TRUE, "RequestError"))
                /\ UNCHANGED srvTags
           ELSE /\ srvTags' = [srvTags EXCEPT ![t] = @ - 1]
                /\ TagsEnd(p.obj, p.n + 1, failAt, rec("True", TRUE, "no"))

\* obj.has_tag(t)
HasTagCall(t, failAt) ==
    /\ LET h == HasTag(tobj, srvTags, t, 0, failAt)
       IN  TagsEnd(h.obj, h.n, failAt,
                   KLast("has", t, FALSE, srvTags[t], None, FALSE, h.raised,
                         IF h.raised = "no" THEN Bool(h.val) ELSE None))
    /\ UNCHANGED srvTags

\* obj.refresh()
TagsRefreshCall(failAt) ==
    /\ LET r == TagsRefresh(tobj, srvTags, 0, failAt)
       IN  TagsEnd(r.obj, r.n, failAt,
                   KLast("refresh", None, FALSE, 0, None, FALSE, r.raised, None))
    /\ UNCHANGED srvTags

\* obj.auto_refresh = b
TagsSetAutoRefresh(b) ==
    /\ tobj' = [tobj EXCEPT !.auto_refresh = b]
    /\ k_clean' = (k_clean /\ b)
    /\ k_hist' = <<>>
    /\ UNCHANGED <<srvTags, k_last>>
    /\ UNCHANGED NotTags

NoTagOp == KLast("none", None, FALSE, 0, None, FALSE, "no", None)

KIdle ==
    /\ srvTags = [t \in Tags |-> 0]
    /\ tobj = [data |-> FALSE, soup |-> NoTags, auto_refresh |-> TRUE]
    /\ k_last = NoTagOp /\ k_hist = <<>> /\ k_clean = TRUE

\* A group with some tags attached once; the object built with or without
\* its data
KInit ==
    /\ srvTags \in [Tags -> 0..1]
    /\ tobj \in [data : BOOLEAN, soup : {NoTags}, auto_refresh : {TRUE}]
    /\ k_last = NoTagOp /\ k_hist = <<>> /\ k_clean = TRUE

KNext ==
    \/ \E t \in Tags, exists_ok \in BOOLEAN, failAt \in 0..MaxRequests :
          AddTag(t, exists_ok, failAt)
    \/ \E t \in Tags, missing_ok \in BOOLEAN, failAt \in 0..MaxRequests :
          DeleteTag(t, missing_ok, failAt)
    \/ \E t \in Tags, failAt \in 0..MaxRequests : HasTagCall(t, failAt)
    \/ \E failAt \in 0..MaxRequests : TagsRefreshCall(failAt)
    \/ \E b \in BOOLEAN : TagsSetAutoRefresh(b)

----------------------------------------------------------------------------
(* GroupObject members.  The server holds at most one membership per       *)
(* person; a POST that adds a person who is a member changes nothing.  As  *)
(* for the tags, failAt is the place of the request that fails.            *)

Persons == {"p1", "p2"}
\* The most requests one membership operation sends: delete_member's refresh
\* of an object without data (2), the membership list, the person's add id,
\* the token page, the POST
MaxMemberRequests == 6

\* The result of a step: _data held, what was raised, the value, the requests
MRes(data, raised, val, n) == [data |-> data, raised |-> raised, val |-> val, n |-> n]

\* get_member: self.memberships (a refresh when there is no _data, then the
\* API's list of memberships as it is now), then the person's membership
GetMember(data, ms, p, n, failAt) ==
    LET n1 == IF data THEN n ELSE n + 2
    IN  IF ~data /\ failAt \in {n + 1, n + 2}
        THEN MRes(failAt = n + 2, "RequestError", None, failAt)
        ELSE IF n1 + 1 = failAt THEN MRes(TRUE, "RequestError", None, n1 + 1)
        ELSE MRes(TRUE, "no", ms[p], n1 + 1)

\* (variant: every role posted is 'leader')
RoleLeader(leader) == "leader"
\* membership[role] / role: 'leader' if leader else 'member'
Role(leader) == IF leader THEN "leader" ELSE "member"

\* The end of a membership operation
MembersEnd(data, n, failAt, op, p, arg, raised, val) ==
    /\ m_data' = data
    /\ m_clean' = (m_clean /\ failAt \notin 1..n)
    /\ m_hist' = IF ~m_clean' THEN <<>>
                 ELSE LET h == Append(m_hist, [op |-> op, person |-> p, arg |-> arg,
                                               pre |-> srvMembers[p],
                                               raised |-> raised, val |-> val])
                      IN  IF Len(h) > MaxHist THEN Tail(h) ELSE h
    /\ UNCHANGED NotMembers

\* obj.add_member(p, leader): the person's add id, then the POST
AddMember(p, leader, failAt) ==
    /\ IF failAt \in {1, 2}
       THEN /\ MembersEnd(m_data, failAt, failAt, "add", p, leader,
                          "RequestError", None)
            /\ UNCHANGED srvMembers
       ELSE /\ srvMembers' = IF srvMembers[p] = None
                             THEN [srvMembers EXCEPT ![p] = Role(leader)]
                             ELSE srvMembers
            /\ MembersEnd(m_data, 2, failAt, "add", p, leader, "no", None)

\* obj.get_member(p)
GetMemberCall(p, failAt) ==
    /\ LET g == GetMember(m_data, srvMembers, p, 0, failAt)
       IN  MembersEnd(g.data, g.n, failAt, "get", p, FALSE, g.raised, g.val)
    /\ UNCHANGED srvMembers

\* obj.update_member(p, leader=leader): get_member, the token, the POST
UpdateMember(p, leader, failAt) ==
    /\ LET g == GetMember(m_data, srvMembers, p, 0, failAt)
           end(n, raised) ==
               MembersEnd(g.data, n, failAt, "update", p, leader, raised, None)
       IN  IF g.raised # "no"
           THEN end(g.n, g.raised) /\ UNCHANGED srvMembers
           ELSE IF g.val = None
           THEN end(g.n, "ValueError") /\ UNCHANGED srvMembers
           ELSE IF failAt \in {g.n + 1, g.n + 2}
           THEN end(failAt, "RequestError") /\ UNCHANGED srvMembers
           ELSE /\ srvMembers' = [srvMembers EXCEPT ![p] = Role(leader)]
                /\ end(g.n + 2, "no")

\* obj.delete_member(p, missing_ok=missing_ok): get_member, the person's add
\* id, the token, the POST
DeleteMember(p, missing_ok, failAt) ==
    /\ LET g == GetMember(m_data, srvMembers, p, 0, failAt)
           end(n, raised) ==
               MembersEnd(g.data, n, failAt, "delete", p, missing_ok, raised, None)
       IN  IF g.raised # "no"
           THEN end(g.n, g.raised) /\ UNCHANGED srvMembers
           ELSE IF g.val = None
           THEN end(g.n, IF missing_ok THEN "no" ELSE "ValueError")
                /\ UNCHANGED srvMembers
           ELSE IF failAt \in {g.n + 1, g.n + 2, g.n + 3}
           THEN end(failAt, "RequestError") /\ UNCHANGED srvMembers
           ELSE /\ srvMembers' = [srvMembers EXCEPT ![p] = None]
                /\ end(g.n + 3, "no")

MIdle ==
    /\ srvMembers = [p \in Persons |-> None]
    /\ m_data = FALSE /\ m_hist = <<>> /\ m_clean = TRUE

\* A group with some members; the object built with or without its data
MInit ==
    /\ srvMembers \in [Persons -> {None, "member", "leader"}]
    /\ m_data \in BOOLEAN /\ m_hist = <<>> /\ m_clean = TRUE

MNext ==
    \/ \E p \in Persons, leader \in BOOLEAN, failAt \in 0..MaxMemberRequests :
          AddMember(p, leader, failAt)
    \/ \E p \in Persons, failAt \in 0..MaxMemberRequests : GetMemberCall(p, failAt)
    \/ \E p \in Persons, leader \in BOOLEAN, failAt \in 0..MaxMemberRequests :
          UpdateMember(p, leader, failAt)
    \/ \E p \in Persons, missing_ok \in BOOLEAN, failAt \in 0..MaxMemberRequests :
          DeleteMember(p, missing_ok, failAt)

NoOp ==
    ALast("none", None, None, <<>>, FALSE, FALSE, "no", <<>>, Ended("no", None, None))

\* PlanningCenterBackend.__init__: _logged_in = False, _username = None
AIdle ==
    /\ sess = None /\ username = None /\ logged_in = FALSE
    /\ srvGroups = {}
    /\ a_last = NoOp

AInit ==
    /\ sess = None /\ username = None /\ logged_in = FALSE
    /\ srvGroups \in SUBSET GroupNames
    /\ a_last = NoOp

ANext ==
    \/ \E user \in Users, valid, formUp, postUp, checkUp \in BOOLEAN :
          Login(user, valid, formUp, postUp, checkUp)
    \/ \E check1Up, getUp, check2Up \in BOOLEAN : Logout(check1Up, getUp, check2Up)
    \/ \E name \in GroupNames, checkUp, queryUp, postUp, location \in BOOLEAN :
          Create(name, checkUp, queryUp, postUp, location)
    \/ \E n \in GroupNames : GroupRemoved(n)
    \/ SessionExpires

----------------------------------------------------------------------------
(* The specifications *)

Init ==
    /\ TInit
    /\ srvPages = [p \in Pages |-> [total_count |-> FALSE, size |-> 0, links |-> NoLinks]]
    /\ QIdle
    /\ GIdle
    /\ AIdle
    /\ KIdle
    /\ MIdle

Spec == Init /\ [][Next]_vars

\* The while loop keeps running: a pass that can be made is made
InitQuery == TInit /\ QInit /\ GIdle /\ AIdle /\ KIdle /\ MIdle

SpecQuery == InitQuery /\ [][QNext]_vars /\ WF_vars(\E ok \in BOOLEAN : QueryFetch(ok))

InitGroup ==
    /\ TInit
    /\ srvPages = [p \in Pages |-> [total_count |-> FALSE, size |-> 0, links |-> NoLinks]]
    /\ QIdle
    /\ GInit
    /\ AIdle
    /\ KIdle
    /\ MIdle

SpecGroup == InitGroup /\ [][GNext]_vars

SpecBlock == Init /\ [][BNext]_vars

InitAuth ==
    /\ TInit
    /\ srvPages = [p \in Pages |-> [total_count |-> FALSE, size |-> 0, links |-> NoLinks]]
    /\ QIdle
    /\ GIdle
    /\ AInit
    /\ KIdle
    /\ MIdle

SpecAuth == InitAuth /\ [][ANext]_vars

InitTags ==
    /\ TInit
    /\ srvPages = [p \in Pages |-> [total_count |-> FALSE, size |-> 0, links |-> NoLinks]]
    /\ QIdle
    /\ GIdle
    /\ AIdle
    /\ KInit
    /\ MIdle

SpecTags == InitTags /\ [][KNext]_vars

InitMembers ==
    /\ TInit
    /\ srvPages = [p \in Pages |-> [total_count |-> FALSE, size |-> 0, links |-> NoLinks]]
    /\ QIdle
    /\ GIdle
    /\ AIdle
    /\ KIdle
    /\ MInit

SpecMembers == InitMembers /\ [][MNext]_vars

----------------------------------------------------------------------------
(* Properties of the transport *)

IsRequest == call.method \in {"post", "delete"}
SendIdx == {i \in 1..Len(log) : log[i].ev = "send"}
RespIdx == {i \in 1..Len(log) : log[i].ev \in {"page", "send"}}
LastResp == CHOOSE i \in RespIdx : \A j \in RespIdx : j <= i

\* A get_csrf_token call is made by this step, with these arguments
CsrfCallStep == pc \in {"tok", "token1", "token2"} /\ pc' # pc
\* The url's token was cached, not evicted since, less than the ttl ago
Fresh(u) == stored[u] # NoStored /\ now - stored[u].at < CSRF_CACHE_TIME
\* What a step appended to the log
Appended == SubSeq(log', Len(log) + 1, Len(log'))

\* C1: a post or delete made with a csrf_frontend_url sends the target
\* request at most twice; a second send follows a first response that was not
\* ok, and between the two the url's cache entry is popped and a token is
\* fetched from the frontend page, which the second send carries.
C1_RetryOnceWithFreshToken ==
    (IsRequest /\ call.url # NoUrl) =>
        /\ Cardinality(SendIdx) <= 2
        /\ \A i, j \in SendIdx : i < j =>
              /\ ~log[i].ok
              /\ \E p, q \in 1..Len(log) :
                    /\ i < p /\ p < q /\ q < j
                    /\ log[p].ev = "pop"
                    /\ log[q].ev = "page" /\ log[q].ok
                    /\ log[j].tok = log[q].tok

\* A retried request that succeeded with a token other than the first one
C1_Witness ==
    /\ IsRequest /\ call.url # NoUrl /\ pc = "done"
    /\ Cardinality(SendIdx) = 2
    /\ \E i, j \in SendIdx : i < j /\ log[j].ok /\ log[j].tok # log[i].tok
    /\ log[1].ev = "send"

\* C2: get_csrf_token with default flags fetches the page only when no token
\* for the url was cached within the last CSRF_CACHE_TIME seconds: inside the
\* ttl it returns the cached token and sends nothing; after it, it fetches a
\* token and caches it.
C2_CachedWithinTtl ==
    [][ (CsrfCallStep /\ ~CsrfNoCache /\ ~CsrfForce) =>
            IF Fresh(call.url)
            THEN /\ Appended = <<>>
                 /\ outcome'.tok = stored[call.url].tok
                 /\ outcome'.kind # "RequestError"
                 /\ cache' = cache
            ELSE /\ Len(Appended) = 1 /\ Appended[1].ev = "page"
                 /\ Appended[1].ok =>
                       /\ outcome'.tok = srvTok
                       /\ cache'[call.url].tok = srvTok
                 /\ ~Appended[1].ok => outcome'.kind = "RequestError"
      ]_vars

\* A default call answered from the cache, some time after the token was
\* stored and after the server moved on to another token
C2_Witness ==
    /\ pc = "done" /\ call.method = "csrf" /\ ~call.no_cache /\ ~call.force
    /\ log = <<>>
    /\ outcome.tok = stored[call.url].tok
    /\ now > stored[call.url].at
    /\ srvTok # outcome.tok

\* C3: get_csrf_token(url, force_refresh=True) with no_cache False always
\* fetches the page, returns the fetched token, and leaves it in the cache: a
\* following default call inside the ttl returns it without fetching.
C3_ForceRefreshRefetches ==
    [][ /\ (CsrfCallStep /\ ~CsrfNoCache /\ CsrfForce) =>
              /\ Len(Appended) = 2
              /\ Appended[1].ev = "pop" /\ Appended[2].ev = "page"
              /\ Appended[2].ok =>
                    /\ outcome'.tok = srvTok
                    /\ cache'[call.url].tok = srvTok
              /\ ~Appended[2].ok => outcome'.kind = "RequestError"
        /\ (CsrfCallStep /\ ~CsrfNoCache /\ ~CsrfForce
               /\ Fresh(call.url) /\ stored[call.url].forced) =>
              /\ Appended = <<>>
              /\ outcome'.tok = stored[call.url].tok
      ]_vars

\* A default call that returned, without a request, the token a forced
\* refresh had fetched earlier
C3_Witness ==
    /\ pc = "done" /\ call.method = "csrf" /\ ~call.no_cache /\ ~call.force
    /\ log = <<>>
    /\ stored[call.url].forced
    /\ outcome.tok = stored[call.url].tok
    /\ now > stored[call.url].at

\* C8: post and delete raise RequestError carrying the last response received
\* exactly when that response is not ok; otherwise they return it.
C8_RaiseIffLastNotOk ==
    (IsRequest /\ pc = "done") =>
        /\ RespIdx # {}
        /\ outcome.resp = LastResp
        /\ outcome.kind \in {"ret", "RequestError"}
        /\ outcome.kind = "RequestError" <=> ~log[LastResp].ok

\* A request whose retry failed too: RequestError carries the second response
C8_Witness ==
    /\ IsRequest /\ pc = "done"
    /\ Cardinality(SendIdx) = 2
    /\ outcome.kind = "RequestError"
    /\ log[outcome.resp].ev = "send"

\* C9: get_csrf_token(url, no_cache=True) with force_refresh False fetches
\* the page on every call, returns the fetched token and leaves the cache as
\* it was.
C9_NoCacheBypasses ==
    [][ (CsrfCallStep /\ CsrfNoCache /\ ~CsrfForce) =>
            /\ Len(Appended) = 1 /\ Appended[1].ev = "page"
            /\ cache' = cache
            /\ Appended[1].ok => outcome'.tok = srvTok
            /\ ~Appended[1].ok => outcome'.kind = "RequestError"
      ]_vars

\* A no_cache call that fetched while the cache held another, unexpired token
C9_Witness ==
    /\ pc = "done" /\ call.method = "csrf" /\ call.no_cache /\ ~call.force
    /\ Len(log) = 1 /\ log[1].ev = "page" /\ log[1].ok
    /\ stored[call.url] # NoStored
    /\ now - stored[call.url].at < CSRF_CACHE_TIME
    /\ cache[call.url].tok = stored[call.url].tok
    /\ cache[call.url].tok # outcome.tok

----------------------------------------------------------------------------
(* Properties of query_api *)

RECURSIVE ChainEnds(_, _)
\* Following the next links from page p, with the pages in seen behind, the
\* chain ends (a scalar object or a page without next) before a page repeats
ChainEnds(p, seen) ==
    IF p \in seen THEN FALSE
    ELSE IF ~srvPages[p].total_count \/ srvPages[p].links \notin Pages THEN TRUE
    ELSE ChainEnds(srvPages[p].links, seen \cup {p})

Acyclic == ChainEnds(FirstUrl, {})

RECURSIVE ConcatData(_)
\* The data lists of the requested pages, one after the other
ConcatData(reqs) ==
    IF reqs = <<>> THEN <<>>
    ELSE LET p == Head(reqs).url
         IN  [i \in 1..srvPages[p].size |-> <<p, i>>] \o ConcatData(Tail(reqs))

LastFetched == q_fetched[Len(q_fetched)]

\* C4: query_api stops fetching as soon as a response without total_count is
\* received, a response carries no next link, or the record count reaches
\* limit; on a chain of pages that does not cycle no page is fetched twice and
\* the query terminates.
C4_StopsAndTerminates ==
    /\ [](q_pc = "fetch" /\ q_fetched # <<>> =>
            /\ LastFetched.ok
            /\ srvPages[LastFetched.url].total_count
            /\ srvPages[LastFetched.url].links \in Pages
            /\ ~(q_limit # NoLimit /\ Len(q_results) >= q_limit))
    /\ [](Acyclic =>
            \A i, j \in 1..Len(q_fetched) :
                q_fetched[i].url = q_fetched[j].url => i = j)
    /\ ((Acyclic /\ q_pc = "fetch") ~> q_pc = "done")

\* A query that ended for its limit with a next link still to follow
C4_Witness ==
    /\ q_pc = "done" /\ q_ret.kind = "list"
    /\ Acyclic
    /\ Len(q_fetched) = 2
    /\ srvPages[LastFetched.url].links \in Pages
    /\ q_limit # NoLimit /\ Len(q_results) = q_limit

\* C5: the list query_api returns is the concatenation of the data lists of
\* the pages it fetched, in the order it fetched them.
C5_Concatenation ==
    (q_pc = "done" /\ q_ret.kind = "list") =>
        q_ret.data = ConcatData(q_fetched)

\* A list of three chunks
C5_Witness ==
    /\ q_pc = "done" /\ q_ret.kind = "list"
    /\ Len(q_fetched) = 3
    /\ \A i \in 1..3 : srvPages[q_fetched[i].url].size > 0
    /\ Len(q_ret.data) > 3

\* C6: with a limit, the returned list holds at most limit records.
C6_AtMostLimit ==
    (q_pc = "done" /\ q_ret.kind = "list" /\ q_limit # NoLimit) =>
        Len(q_ret.data) <= q_limit

\* C7: when the first response has no total_count, query_api returns its data
\* object after exactly one request, whatever its links and the limit.
C7_ScalarAfterOneRequest ==
    (q_fetched # <<>> /\ q_fetched[1].ok
         /\ ~srvPages[q_fetched[1].url].total_count) =>
        /\ Len(q_fetched) = 1
        /\ q_pc = "done"
        /\ q_ret = [kind |-> "scalar", data |-> [obj |-> q_fetched[1].url]]

\* A scalar object that carried a next link, queried with a limit
C7_Witness ==
    /\ q_pc = "done" /\ q_ret.kind = "scalar"
    /\ Len(q_fetched) = 1
    /\ srvPages[q_fetched[1].url].links \in Pages
    /\ q_limit = 0

----------------------------------------------------------------------------
(* Properties of GroupObject *)

\* C10: with auto_refresh on, a read of a setting that follows a set of it
\* that did not raise returns the value set, from the data and the page the
\* setter's refresh loaded: no request is sent for it.
C10_ReadAfterSet ==
    [][ (/\ g_n' # g_n
         /\ g_last.op = "set" /\ g_last.raised = "no" /\ g_last.auto
         /\ g_last'.op = "get" /\ g_last'.prop = g_last.prop) =>
            /\ g_last'.raised = "no"
            /\ g_last'.val = g_last.val
            /\ g_last'.reqs = 0
            /\ g_last.reqs = 3
      ]_vars

\* A setting scraped from the page read back after it was changed
C10_Witness ==
    /\ g_last.op = "get" /\ g_last.prop = "schedule_offset"
    /\ g_last.raised = "no" /\ g_last.val = 10 /\ g_last.reqs = 0
    /\ srv.fields["schedule_offset"] = 10 * SECONDS_PER_DAY
    /\ srv.fields["name"] = "B" /\ obj.data.loaded /\ obj.data.shown["name"] = "B"

\* C11: delete, when it returns, returns True exactly when the group no
\* longer exists on the server (the DELETE request succeeded), whatever
\* auto_refresh is, also inside a no_refresh block.
C11_DeleteReturnsSuccess ==
    (g_last.op = "delete" /\ g_last.raised = "no") =>
        (g_last.val <=> ~srv.exists)

\* C12: a GroupObject built without data has sent no request and holds no
\* page; its first read of attributes runs one refresh (the API request,
\* then the settings page); once that refresh has loaded both, and until
\* another refresh runs, no read of attributes or of a setting scraped from
\* the page sends a request, and attributes are those first loaded.
C12_LazyLoad ==
    /\ [](g_last.op = "none" => (g_last.reqs = 0 /\ ~obj.soup.loaded))
    /\ [][ (/\ g_n' # g_n
            /\ g_track.lazy = "built"
            /\ g_last'.op = "get" /\ g_last'.prop \in ApiProps) =>
               /\ g_last'.reqs \in 1..2
               /\ g_track'.lazy = "loaded" =>
                     (g_last'.reqs = 2 /\ obj'.data.loaded /\ obj'.soup.loaded)
         ]_vars
    /\ [][ (/\ g_n' # g_n
            /\ g_track.lazy = "loaded"
            /\ g_last'.op = "get") =>
               /\ g_last'.reqs = 0
               /\ g_last'.raised = "no"
               /\ g_last'.prop \in ApiProps => g_last'.val = g_track.first
               /\ obj' = obj
         ]_vars

\* A setting scraped from the page is read, with no request, after the first
\* read of attributes loaded the data and the page
C12_Witness ==
    /\ g_track.lazy = "loaded"
    /\ g_last.op = "get" /\ g_last.prop = "communication_enabled"
    /\ g_last.raised = "no" /\ g_last.reqs = 0

\* C20: entering a no_refresh block turns auto_refresh off; inside the block,
\* unless the caller itself assigns auto_refresh = True there, a setter sends
\* its POST and no refresh; leaving the block, normally or by an exception,
\* gives auto_refresh the value it had when the block was entered; the
\* refresh at exit runs only on a normal exit with refresh_at_exit True.
C20_NoRefreshIsTemporary ==
    /\ [][ Len(blocks') > Len(blocks) =>
              /\ ~obj'.auto_refresh
              /\ blocks'[Len(blocks')].old_status = obj.auto_refresh
              /\ g_last'.reqs = 0 ]_vars
    /\ [][ (/\ g_n' # g_n
            /\ Len(blocks) > 0 /\ ~g_track.assigned
            /\ g_last'.op = "set") =>
               /\ g_last'.reqs <= 1
               /\ obj'.data = obj.data /\ obj'.soup = obj.soup ]_vars
    /\ [][ Len(blocks') < Len(blocks) =>
              /\ g_last'.op = "exit"
              /\ obj'.auto_refresh = blocks[Len(blocks)].old_status
              /\ g_last'.reqs > 0 =>
                    (g_last'.prop = "normal" /\ g_last'.val)
              /\ (g_last'.prop = "normal" /\ g_last'.val /\ ~obj.deleted) =>
                    g_last'.reqs > 0 ]_vars

\* A block entered with auto_refresh on and refresh_at_exit True was left by
\* an exception: auto_refresh is on again and no refresh ran
C20_Witness ==
    /\ g_last.op = "exit" /\ g_last.prop = "exception"
    /\ g_last.val /\ g_last.reqs = 0
    /\ Len(blocks) = 0 /\ obj.auto_refresh /\ ~g_last.auto

----------------------------------------------------------------------------
(* Properties of login, logout and create *)

\* C13: create sends the creation POST only after its login check succeeded
\* and its name query was answered with no group of exactly that name; when
\* the check fails it raises ValueError having sent neither query nor POST;
\* when the query returned a group of that name it sends no POST and raises
\* ValueError (RequestError when loading a group listed before it failed).
C13_CreateGuards ==
    a_last.op = "create" =>
        /\ a_last.sent =>
              /\ a_last.checks = <<TRUE>>
              /\ a_last.queried = "ok"
              /\ \A i \in DOMAIN a_last.returned : a_last.returned[i] # a_last.arg
        /\ a_last.checks = <<FALSE>> =>
              /\ a_last.raised = "ValueError"
              /\ ~a_last.sent /\ a_last.queried = "no"
        /\ (\E i \in DOMAIN a_last.returned : a_last.returned[i] = a_last.arg) =>
              /\ ~a_last.sent
              /\ a_last.raised \in {"ValueError", "RequestError"}
              /\ a_last.queried = "ok" => a_last.raised = "ValueError"
        /\ a_last.ret = "GroupObject" => a_last.sent_ok

\* The server lists "AB" and "A" for the query "A"; create raises ValueError
\* without a POST
C13_Witness ==
    /\ a_last.op = "create" /\ a_last.arg = "A"
    /\ a_last.returned = <<"AB", "A">>
    /\ a_last.raised = "ValueError" /\ ~a_last.sent /\ a_last.checks = <<TRUE>>

C19_LogoutResult ==
    a_last.op = "logout" =>
        /\ a_last.sent <=> (Len(a_last.checks) = 2 /\ a_last.checks[1])
        /\ ~a_last.sent =>
              (a_last.checks = <<FALSE>> /\ a_last.raised = "no"
               /\ username = a_last.before)
        /\ (a_last.sent /\ ~a_last.checks[2]) =>
              (username = None /\ a_last.raised = "no")
        /\ (a_last.sent /\ a_last.checks[2]) =>
              (a_last.raised = "RuntimeError" /\ username = a_last.before)

\* The logout request was not honoured: RuntimeError, _username kept
C19_Witness ==
    /\ a_last.op = "logout" /\ a_last.sent /\ ~a_last.sent_ok
    /\ a_last.raised = "RuntimeError" /\ username = "u1" /\ sess = "u1"

----------------------------------------------------------------------------
(* Properties of the tags *)

\* The latest n tag operations, oldest first (<<>> when there are fewer)
LastOps(n) ==
    IF Len(k_hist) < n THEN <<>> ELSE SubSeq(k_hist, Len(k_hist) - n + 1, Len(k_hist))
IsAdd(e, t) == e.op = "add" /\ e.tag = t
IsDelete(e, t) == e.op = "delete" /\ e.tag = t
IsHas(e, t) == e.op = "has" /\ e.tag = t

\* C14: add_tag sends its POST only for a tag the group does not have; when
\* its has_tag says the group has the tag it sends no POST, returns if
\* exists_ok and raises ValueError if not; so no tag attached at most once
\* is ever attached twice.
C14_NoDuplicateAdd ==
    /\ \A t \in Tags : srvTags[t] <= 1
    /\ k_last.op = "add" =>
          /\ k_last.sent => k_last.pre = 0
          /\ k_last.pre > 0 => ~k_last.sent
          /\ k_last.had = "True" =>
                /\ ~k_last.sent
                /\ k_last.pre > 0
                /\ k_last.raised = IF k_last.strict THEN "ValueError" ELSE "no"
                /\ srvTags[k_last.tag] = k_last.pre

\* add_tag(t, exists_ok=False) raised ValueError for a tag attached by an
\* earlier add_tag, which stays attached once
C14_Witness ==
    /\ k_last.op = "add" /\ k_last.strict /\ k_last.had = "True"
    /\ k_last.raised = "ValueError" /\ srvTags[k_last.tag] = 1
    /\ Len(k_hist) >= 2 /\ IsAdd(k_hist[Len(k_hist) - 1], k_last.tag)
    /\ k_hist[Len(k_hist) - 1].raised = "no"

\* C15: delete_tag of a tag the group does not have sends no DELETE; once
\* its has_tag has said so it returns if missing_ok and raises ValueError if
\* not.
C15_DeleteMissing ==
    k_last.op = "delete" =>
        /\ k_last.pre = 0 => ~k_last.sent
        /\ k_last.had = "False" =>
              /\ k_last.pre = 0
              /\ ~k_last.sent
              /\ k_last.raised = IF k_last.strict THEN "ValueError" ELSE "no"
        /\ k_last.sent => k_last.had = "True"

\* delete_tag(t, missing_ok=False) raised ValueError after a delete_tag that
\* removed the tag
C15_Witness ==
    /\ k_last.op = "delete" /\ k_last.strict /\ k_last.had = "False"
    /\ k_last.raised = "ValueError" /\ ~k_last.sent
    /\ Len(k_hist) >= 2 /\ IsDelete(k_hist[Len(k_hist) - 1], k_last.tag)
    /\ k_hist[Len(k_hist) - 1].raised = "no"

\* C16: with auto_refresh on since the object was made and every request
\* answered ok, for every tag t: a delete_tag(t, missing_ok=False) that
\* follows an add_tag(t) does not raise, nor does the add_tag; has_tag(t)
\* after it is False; an add_tag(t, exists_ok=False) after that delete_tag,
\* or after a has_tag(t) that was False, does not raise; has_tag(t) after
\* that add_tag is True.
C16_TagsInOrder ==
    \A t \in Tags :
        /\ LET h == LastOps(2)
           IN  (h # <<>> /\ IsAdd(h[1], t) /\ ~h[1].strict
                /\ IsDelete(h[2], t) /\ h[2].strict) =>
                   (h[1].raised = "no" /\ h[2].raised = "no" /\ srvTags[t] = 0)
        /\ LET h == LastOps(2)
           IN  (h # <<>> /\ IsDelete(h[1], t) /\ h[1].strict /\ h[1].raised = "no"
                /\ IsHas(h[2], t)) =>
                   (h[2].raised = "no" /\ h[2].val = "False")
        /\ LET h == LastOps(2)
           IN  (h # <<>> /\ IsDelete(h[1], t) /\ h[1].strict /\ h[1].raised = "no"
                /\ IsAdd(h[2], t) /\ h[2].strict) =>
                   (h[2].raised = "no" /\ srvTags[t] = 1)
        /\ LET h == LastOps(2)
           IN  (h # <<>> /\ IsHas(h[1], t) /\ h[1].val = "False"
                /\ IsAdd(h[2], t) /\ h[2].strict) =>
                   (h[2].raised = "no" /\ srvTags[t] = 1)
        /\ LET h == LastOps(2)
           IN  (h # <<>> /\ IsAdd(h[1], t) /\ h[1].strict /\ h[1].raised = "no"
                /\ IsHas(h[2], t)) =>
                   (h[2].raised = "no" /\ h[2].val = "True")

\* add_tag(t1, exists_ok=False), has_tag(t1) = True, the page the object
\* holds showing t1 and not t2
C16_Witness ==
    /\ LastOps(2) # <<>>
    /\ IsAdd(LastOps(2)[1], "t1") /\ LastOps(2)[1].strict
    /\ LastOps(2)[1].raised = "no"
    /\ IsHas(LastOps(2)[2], "t1") /\ LastOps(2)[2].val = "True"
    /\ k_clean /\ tobj.soup.shown["t1"] = 1 /\ tobj.soup.shown["t2"] = 0

----------------------------------------------------------------------------
(* Properties of the members *)

\* The latest two membership operations, oldest first, when both are on p
LastTwo(p) ==
    IF Len(m_hist) < 2 THEN <<>>
    ELSE LET h == SubSeq(m_hist, Len(m_hist) - 1, Len(m_hist))
         IN  IF h[1].person = p /\ h[2].person = p THEN h ELSE <<>>

\* C17: with every request answered ok, for a person p: get_member(p) after
\* an add_member(p, leader=False) of a non-member is a membership with role
\* 'member'; an update_member(p, leader=True) after a get_member(p) that
\* found a membership does not raise, and get_member(p) after it has role
\* 'leader'; a delete_member(p) after a get_member(p) that found a
\* membership does not raise, and get_member(p) after it is None.
C17_MembersInOrder ==
    \A p \in Persons :
        LET h == LastTwo(p)
        IN  h # <<>> =>
            /\ (h[1].op = "add" /\ ~h[1].arg /\ h[1].pre = None
                /\ h[2].op = "get") =>
                   (h[1].raised = "no" /\ h[2].raised = "no" /\ h[2].val = "member")
            /\ (h[1].op = "get" /\ h[1].val # None
                /\ h[2].op = "update" /\ h[2].arg) =>
                   h[2].raised = "no"
            /\ (h[1].op = "update" /\ h[1].arg /\ h[1].raised = "no"
                /\ h[2].op = "get") =>
                   (h[2].raised = "no" /\ h[2].val = "leader")
            /\ (h[1].op = "get" /\ h[1].val # None
                /\ h[2].op = "delete" /\ ~h[2].arg) =>
                   h[2].raised = "no"
            /\ (h[1].op = "delete" /\ ~h[1].arg /\ h[1].raised = "no"
                /\ h[2].op = "get") =>
                   (h[2].raised = "no" /\ h[2].val = None)

\* get_member(p1) found the role 'leader' after update_member(p1,
\* leader=True) of a member
C17_Witness ==
    /\ LastTwo("p1") # <<>>
    /\ LastTwo("p1")[1].op = "update" /\ LastTwo("p1")[1].arg
    /\ LastTwo("p1")[1].pre = "member"
    /\ LastTwo("p1")[2].op = "get" /\ LastTwo("p1")[2].val = "leader"

----------------------------------------------------------------------------
(* Further properties of GroupObject and of the transport *)

\* C21: the setter of default_event_automated_reminders_schedule_offset
\* raises ValueError and sends nothing for days outside 1..10; for days
\* inside it sends the POST, and a POST answered ok stores days * 86400
\* seconds; the getter, on the page the setter's refresh loaded, returns
\* those days again.
C21_ScheduleOffsetRange ==
    /\ [][ (g_n' # g_n /\ g_last'.op = "set" /\ g_last'.prop = "schedule_offset") =>
              IF g_last'.val < 1 \/ g_last'.val > 10
              THEN /\ g_last'.raised = "ValueError" /\ g_last'.reqs = 0
                   /\ srv' = srv /\ obj' = obj
              ELSE /\ g_last'.raised # "ValueError" /\ g_last'.reqs >= 1
                   /\ ~(g_last'.reqs = 1 /\ g_last'.raised = "RequestError") =>
                         srv'.fields["schedule_offset"] = g_last'.val * 86400
                   /\ (g_last'.raised = "no" /\ obj.auto_refresh) =>
                         /\ obj'.soup.loaded
                         /\ obj'.soup.shown["schedule_offset"] = g_last'.val * 86400
                         /\ obj'.soup.shown["schedule_offset"] \div 86400 = g_last'.val
         ]_vars
    /\ [][ (/\ g_n' # g_n
            /\ g_last.op = "set" /\ g_last.prop = "schedule_offset"
            /\ g_last.raised = "no" /\ g_last.auto
            /\ g_last'.op = "get" /\ g_last'.prop = "schedule_offset") =>
               (g_last'.raised = "no" /\ g_last'.val = g_last.val
                /\ g_last'.val \in 1..10)
         ]_vars

\* 11 days were refused, the 10 days stored before are still there
C21_Witness ==
    /\ g_last.op = "set" /\ g_last.prop = "schedule_offset"
    /\ g_last.raised = "ValueError" /\ g_last.reqs = 0 /\ g_last.val = 11
    /\ srv.fields["schedule_offset"] = 10 * SECONDS_PER_DAY
    /\ obj.soup.loaded /\ obj.soup.shown["schedule_offset"] = 10 * SECONDS_PER_DAY

\* C22: the deleted flag never returns to False; it becomes True only in an
\* operation whose refresh was answered 404 by the API (the group is gone)
\* and that did not raise; once it is True refresh sends nothing and
\* attributes is None; a refresh that raises RequestError leaves the flag
\* as it was.
C22_DeletedMonotonic ==
    /\ [][obj.deleted => obj'.deleted]_vars
    /\ [][ (~obj.deleted /\ obj'.deleted) =>
              /\ ~srv'.exists
              /\ g_last'.raised = "no" /\ g_last'.reqs >= 1
              /\ g_last'.op \in {"refresh", "get", "set", "delete"} ]_vars
    /\ [][ (g_n' # g_n /\ obj.deleted /\ g_last'.op = "refresh") =>
              (g_last'.reqs = 0 /\ g_last'.raised = "no" /\ obj' = obj) ]_vars
    /\ [][ (g_n' # g_n /\ obj.deleted /\ g_last'.op = "get"
            /\ g_last'.prop \in ApiProps) =>
              (g_last'.val = None /\ g_last'.reqs = 0 /\ g_last'.raised = "no") ]_vars
    /\ [][ (g_n' # g_n /\ g_last'.op = "refresh"
            /\ g_last'.raised = "RequestError") =>
              (obj'.deleted = obj.deleted /\ srv.exists) ]_vars

\* refresh on an object marked deleted by an earlier refresh: no request
C22_Witness ==
    /\ obj.deleted /\ ~srv.exists
    /\ g_last.op = "refresh" /\ g_last.reqs = 0 /\ g_last.raised = "no"
    /\ obj.data.loaded

====
